---- MODULE Spec2Model ----
(***************************************************************************)
(* A model of server.js: the upload handler (flat and folder mode), the    *)
(* compaction functions compactDirectory/compactAll, the delete and        *)
(* download handlers, computeFolderSize, and the path helper safeJoin,     *)
(* over an explicit model of the uploads directory.                        *)
(*                                                                         *)
(* Strings are sequences of one-character strings, so that the code's      *)
(* string operations (split, startsWith, substring, path.normalize,        *)
(* path.join) are computed the way the code computes them.                 *)
(***************************************************************************)
EXTENDS Integers, Sequences, FiniteSets, TLC

VARIABLES
  dirs,     \* the directories that exist below the uploads root (full paths)
  files,    \* the regular files that exist: full path -> content
  up,       \* the upload request handler in flight (app.post('/upload'))
  ct,       \* the compaction calls in flight (compactAll / compactDirectory)
  faults,   \* I/O failures the environment may still inject
  hist,     \* history of what the handlers did, for stating the properties
  sj,       \* one call of safeJoin: its arguments and its outcome
  req       \* the delete or download request in flight, and its response

vars == <<dirs, files, up, ct, faults, hist, sj, req>>

----------------------------------------------------------------------------
(* Bounds of the model.                                                    *)

\* longest untrusted path handed to safeJoin in SpecPath
MaxLen == 5
\* I/O failures injected in one behaviour
MaxFaults == 1

----------------------------------------------------------------------------
(* Strings.                                                                *)

Sep == "/"
Bsl == "\\"
Dot == "."

\* String.prototype.startsWith
startsWith(s, p) == Len(p) <= Len(s) /\ SubSeq(s, 1, Len(p)) = p

\* String.prototype.includes for a single character
includes(s, c) == \E i \in 1..Len(s) : s[i] = c

\* String.prototype.substring(n): the string from 0-based index n on
substring(s, n) == SubSeq(s, n + 1, Len(s))

FirstIndex(s, c) == CHOOSE i \in 1..Len(s) : s[i] = c /\ \A j \in 1..(i - 1) : s[j] # c

\* String.prototype.split('/'): the segments between separators; adjacent
\* separators give empty segments, and a string without one gives <<s>>.
RECURSIVE split(_)
split(s) ==
  IF ~includes(s, Sep) THEN <<s>>
  ELSE LET i == FirstIndex(s, Sep)
       IN  <<SubSeq(s, 1, i - 1)>> \o split(SubSeq(s, i + 1, Len(s)))

\* Array.prototype.join('/')
RECURSIVE joinSegs(_)
joinSegs(segs) ==
  IF Len(segs) = 0 THEN <<>>
  ELSE IF Len(segs) = 1 THEN segs[1]
  ELSE segs[1] \o <<Sep>> \o joinSegs(Tail(segs))

----------------------------------------------------------------------------
(* The path module (POSIX).                                                *)

DotDot == <<Dot, Dot>>

\* normalizeString of path.normalize: resolves "." and ".." segments
RECURSIVE normalizeString(_, _, _)
normalizeString(segs, res, allowAboveRoot) ==
  IF Len(segs) = 0 THEN res
  ELSE LET seg == Head(segs)
           next ==
             IF seg = <<>> \/ seg = <<Dot>> THEN res
             ELSE IF seg = DotDot
                  THEN IF Len(res) > 0 /\ res[Len(res)] # DotDot
                       THEN SubSeq(res, 1, Len(res) - 1)
                       ELSE IF allowAboveRoot THEN Append(res, seg) ELSE res
                  ELSE Append(res, seg)
       IN  normalizeString(Tail(segs), next, allowAboveRoot)

\* path.normalize
normalize(p) ==
  IF Len(p) = 0 THEN <<Dot>>
  ELSE LET isAbsolute == p[1] = Sep
           trailing   == p[Len(p)] = Sep
           body       == joinSegs(normalizeString(split(p), <<>>, ~isAbsolute))
       IN  IF Len(body) = 0
           THEN IF isAbsolute THEN <<Sep>>
                ELSE IF trailing THEN <<Dot, Sep>> ELSE <<Dot>>
           ELSE (IF isAbsolute THEN <<Sep>> ELSE <<>>) \o body
                \o (IF trailing THEN <<Sep>> ELSE <<>>)

\* path.join(a, b): empty arguments are dropped, the rest joined by "/" and
\* normalized
join(a, b) ==
  IF Len(a) = 0 /\ Len(b) = 0 THEN <<Dot>>
  ELSE IF Len(a) = 0 THEN normalize(b)
  ELSE IF Len(b) = 0 THEN normalize(a)
  ELSE normalize(a \o <<Sep>> \o b)

\* .replace(/^([/\\])+/, ''): drops the leading slashes and backslashes
RECURSIVE stripLeading(_)
stripLeading(s) ==
  IF Len(s) > 0 /\ (s[1] = Sep \/ s[1] = Bsl) THEN stripLeading(Tail(s)) ELSE s

\* safeJoin(base, target): threw is the 'Invalid path' error, full the result
safeJoin(base, target) ==
  LET normalized == stripLeading(normalize(target))
      full       == join(base, normalized)
  IN  [threw |-> ~startsWith(full, base), full |-> full]

\* The path components of a normalized path
Segs(p) == SelectSeq(split(p), LAMBDA s : s # <<>>)

\* full lies strictly below base in the directory tree
StrictDescendant(full, base) ==
  /\ Len(Segs(full)) > Len(Segs(base))
  /\ SubSeq(Segs(full), 1, Len(Segs(base))) = Segs(base)

----------------------------------------------------------------------------
(* SpecPath: safeJoin on every untrusted path up to MaxLen characters.     *)

PathChars == {Sep, Dot, Bsl, "a"}

RECURSIVE StringsUpTo(_)
StringsUpTo(n) ==
  IF n = 0 THEN {<<>>}
  ELSE LET shorter == StringsUpTo(n - 1)
       IN  shorter \cup {Append(s, c) : s \in {t \in shorter : Len(t) = n - 1}, c \in PathChars}

\* the roots safeJoin is called with: the uploads root and a folder in it
UPLOADS_DIR == <<Sep, "a">>
SjBases == {UPLOADS_DIR, UPLOADS_DIR \o <<Sep, "a">>}

NoCall == [base |-> <<>>, target |-> <<>>, state |-> "idle", threw |-> FALSE, full |-> <<>>]

\* No delete or download request, and no call of computeFolderSize, in
\* flight. status and body are the last response: body holds the content
\* sent, if a file was sent, or the number computeFolderSize returned (stack
\* is then its stack at the return).
IdleReq ==
  [op |-> "none", pc |-> "idle", name |-> <<>>, entries |-> <<>>,
   stack |-> <<>>, total |-> 0, status |-> 0, body |-> {}]

\* res.status(..).send(..) of a delete or download handler
answer(r, status, body) ==
  [IdleReq EXCEPT !.op = r.op, !.name = r.name, !.status = status, !.body = body]


----------------------------------------------------------------------------
(* The uploads directory: fs-extra on the model's file system.             *)

ZipExt  == <<Dot, "z", "i", "p">>
LockExt == <<Dot, "u", "p", "l", "o", "a", "d", "i", "n", "g">>

\* path.join(UPLOADS_DIR, dirName), `${dirName}.zip`, `${name}.uploading`
folderPath(name) == join(UPLOADS_DIR, name)
zipPath(name)    == join(UPLOADS_DIR, name \o ZipExt)
lockPath(name)   == join(UPLOADS_DIR, name \o LockExt)

\* p lies below directory d
Under(p, d) == startsWith(p, d \o <<Sep>>)

\* the directories between the uploads root and p, p excluded
Ancestors(p) ==
  LET s == Segs(p)
      r == Len(Segs(UPLOADS_DIR))
  IN  {<<Sep>> \o joinSegs(SubSeq(s, 1, k)) : k \in (r + 1)..(Len(s) - 1)}

\* fs.pathExists
pathExists(d, f, p) == p \in d \/ p \in DOMAIN f

\* fs.stat(p).isDirectory(), a failed stat counting as "not a directory"
isDirectory(d, p) == p \in d

\* fs.ensureDir(p) cannot succeed: p or one of its ancestors is a regular file
ensureDirFails(f, p) == \E q \in Ancestors(p) \cup {p} : q \in DOMAIN f

\* fs.ensureDir(p): the directories afterwards
ensureDir(d, p) == d \cup Ancestors(p) \cup {p}

\* fs.outputFile(p, data) cannot succeed
outputFileFails(d, f, p) ==
  \/ p \in d
  \/ p = UPLOADS_DIR
  \/ p[Len(p)] = Sep
  \/ \E q \in Ancestors(p) : q \in DOMAIN f

\* fs.outputFile(p, data): the files afterwards (the parents are made too)
outputFile(f, p, data) ==
  [q \in DOMAIN f \cup {p} |-> IF q = p THEN data ELSE f[q]]

\* fs.remove(p): everything at and below p goes
removeDirs(d, p)  == {q \in d : q # p /\ ~Under(q, p)}
removeFiles(f, p) == [q \in {r \in DOMAIN f : r # p /\ ~Under(r, p)} |-> f[q]]

\* the names of the directories directly under the uploads root
\* (fs.readdir with ent.isDirectory())
rootDirNames(d) ==
  {substring(p, Len(UPLOADS_DIR) + 1) : p \in {q \in d : Ancestors(q) = {} /\ Under(q, UPLOADS_DIR)}}

\* File contents: plain bytes, or a zip archive with the entries written so
\* far and whether the archive was finalized and its stream closed.
Data(b)          == [kind |-> "data", bytes |-> b]
Zip(ents, done)  == [kind |-> "zip", entries |-> ents, closed |-> done]

\* archive.directory(dir, false): the files below dir, by relative path
relOf(p, dir)  == substring(p, Len(dir) + 1)
listing(f, dir) == {p \in DOMAIN f : Under(p, dir)}
contents(f, dir) == {<<relOf(p, dir), f[p]>> : p \in listing(f, dir)}


\* fs.createWriteStream(zipPath): the file is created, or truncated, empty
archiveOpen(f, zp) == outputFile(f, zp, Zip({}, FALSE))

\* the stream writes what the archiver has produced so far; once the file
\* was unlinked the writes no longer show under its name. Of two streams
\* open on one file, the one that wrote last decides what the file holds.
archiveWrite(f, zp, ents, done) ==
  IF zp \in DOMAIN f THEN outputFile(f, zp, Zip(ents, done)) ELSE f

\* the archiver reads file p of directory dir into the archive; a file that
\* has gone meanwhile is left out (the archiver only emits a warning)
archiveAdd(f, dir, ents, p) ==
  IF p \in DOMAIN f THEN ents \cup {<<relOf(p, dir), f[p]>>} ELSE ents

----------------------------------------------------------------------------
(* The upload handler, app.post('/upload').                                *)

\* A falsy value of JavaScript (null, undefined, ''): the empty string
Null == <<>>

\* getRootName(paths)
getRootName(paths) ==
  IF Len(paths) = 0 THEN Null
  ELSE LET parts == split(paths[1])
       IN  IF Len(parts) > 1 THEN parts[1] ELSE Null

\* path.basename
basename(p) == LET s == Segs(p) IN IF Len(s) = 0 THEN <<>> ELSE s[Len(s)]

\* paths.some(p => p.includes('/'))
hasNested(paths) == \E k \in 1..Len(paths) : includes(paths[k], Sep)

\* paths.filter(Boolean)
filterBoolean(paths) == SelectSeq(paths, LAMBDA q : q # Null)

\* `upload_${Date.now()}`, one fixed name standing for the time stamp
UploadName == <<"t">>

\* rootFromPaths || `upload_${Date.now()}`
baseNameOf(paths) ==
  LET rootFromPaths == getRootName(filterBoolean(paths))
  IN  IF rootFromPaths # Null THEN rootFromPaths ELSE UploadName

\* paths[i] || f.originalname, with the common root stripped if present
relativeOf(paths, fs, i) ==
  LET rootFromPaths == getRootName(filterBoolean(paths))
      rel == IF i <= Len(paths) /\ paths[i] # Null THEN paths[i] ELSE fs[i].originalname
  IN  IF rootFromPaths # Null /\ startsWith(rel, rootFromPaths \o <<Sep>>)
      THEN substring(rel, Len(rootFromPaths) + 1)
      ELSE rel

File(name, b) == [originalname |-> name, buffer |-> Data(b)]
Batch(paths, fs) == [paths |-> paths, files |-> fs]

\* The handler between two requests. status, reported and cause are the last
\* response: reported holds the number of files the response body tells, if
\* it tells one (only line 113 does), cause tells the reasons for a 500
\* apart; made and wrote are the directories and files the request in flight
\* has created so far.
IdleUpload ==
  [pc |-> "idle", batch |-> Batch(<<>>, <<>>), i |-> 0, baseName |-> <<>>,
   todo |-> {}, arc |-> {}, stream |-> "none",
   status |-> 0, reported |-> {}, cause |-> "none", made |-> {}, wrote |-> {}]

\* res.send / res.status(..).send: the handler answers and is done
respond(u, status, cause) ==
  [IdleUpload EXCEPT !.status = status, !.cause = cause]

baseDirOf(u) == join(UPLOADS_DIR, u.baseName)
numFiles(u)  == Len(u.batch.files)


\* the compaction calls that may be in flight at once
Tasks == {"c1", "c2"}

\* hist.held[t]: the folders whose lock marker has existed ever since the
\* sweep of task t began; hist.listed[t]: the directories that sweep found
\* at the uploads root; hist.passed[t]: those of them it has passed over
Track(h, d, f) ==
  [h EXCEPT !.held = [t \in Tasks |-> {n \in h.held[t] : pathExists(d, f, lockPath(n))}]]

\* A request arrives: lines 88-104 and 123-125, up to the first await.
UploadStart(b) ==
  /\ up.pc = "idle"
  /\ up' = IF Len(b.files) = 0
           THEN respond(IdleUpload, 400, "no-files")
           ELSE IF ~hasNested(b.paths) /\ getRootName(filterBoolean(b.paths)) = Null
           THEN [IdleUpload EXCEPT !.batch = b, !.i = 1, !.pc = "flatWrite"]
           ELSE [IdleUpload EXCEPT !.batch = b, !.i = 1, !.pc = "ensureDir",
                                   !.baseName = baseNameOf(b.paths)]
  /\ UNCHANGED <<dirs, files, ct, faults, hist, sj, req>>

\* Flat branch, lines 105-120: one file of the batch is written at the root.
UploadFlatWrite ==
  /\ up.pc = "flatWrite"
  /\ LET f    == up.batch.files[up.i]
         dest == safeJoin(UPLOADS_DIR, basename(f.originalname))
         last == up.i = numFiles(up)
     IN  IF dest.threw
         THEN /\ up' = respond(up, 500, "path")
              /\ UNCHANGED <<dirs, files, faults>>
         ELSE IF outputFileFails(dirs, files, dest.full)
         THEN /\ up' = respond(up, 500, "io")
              /\ UNCHANGED <<dirs, files, faults>>
         ELSE \/ /\ files' = outputFile(files, dest.full, f.buffer)
                 /\ dirs' = ensureDir(dirs, dest.full) \ {dest.full}
                 /\ up' = IF last
                          THEN [respond(up, 200, "none") EXCEPT !.reported = {numFiles(up)}]
                          ELSE [up EXCEPT !.i = @ + 1, !.wrote = @ \cup {dest.full}]
                 /\ UNCHANGED faults
              \/ /\ faults > 0
                 /\ faults' = faults - 1
                 /\ up' = respond(up, 500, "io")
                 /\ UNCHANGED <<dirs, files>>
  /\ hist' = Track(hist, dirs', files')
  /\ UNCHANGED <<ct, sj, req>>

\* Folder branch, line 126: await fs.ensureDir(baseDir).
UploadEnsureDir ==
  /\ up.pc = "ensureDir"
  /\ IF ensureDirFails(files, baseDirOf(up))
     THEN /\ up' = respond(up, 500, "io")
          /\ UNCHANGED dirs
     ELSE /\ dirs' = ensureDir(dirs, baseDirOf(up))
          /\ up' = [up EXCEPT !.pc = "write", !.made = dirs' \ dirs]
  /\ UNCHANGED <<files, ct, faults, hist, sj, req>>

\* Folder branch, lines 129-138: entry i is resolved and written.
UploadWrite ==
  /\ up.pc = "write"
  /\ LET f      == up.batch.files[up.i]
         rel    == relativeOf(up.batch.paths, up.batch.files, up.i)
         target == safeJoin(baseDirOf(up), rel)
         last   == up.i = numFiles(up)
     IN  IF target.threw
         THEN /\ up' = respond(up, 500, "path")
              /\ UNCHANGED <<dirs, files, faults>>
         ELSE IF outputFileFails(dirs, files, target.full)
         THEN /\ up' = respond(up, 500, "io")
              /\ UNCHANGED <<dirs, files, faults>>
         ELSE \/ /\ files' = outputFile(files, target.full, f.buffer)
                 /\ dirs' = ensureDir(dirs, target.full) \ {target.full}
                 /\ up' = [up EXCEPT !.i = @ + 1,
                                     !.wrote = @ \cup {target.full},
                                     !.made = @ \cup (dirs' \ dirs),
                                     !.pc = IF last THEN "zipOpen" ELSE "write"]
                 /\ UNCHANGED faults
              \/ /\ faults > 0
                 /\ faults' = faults - 1
                 /\ up' = respond(up, 500, "io")
                 /\ UNCHANGED <<dirs, files>>
  /\ hist' = Track(hist, dirs', files')
  /\ UNCHANGED <<ct, sj, req>>

\* Lines 141-149: the write stream opens the archive file and the archiver
\* lists the folder. Of a folder that has gone, the archiver finds no files
\* or emits 'error', depending on its version: both are possible.
UploadZipOpen ==
  /\ up.pc = "zipOpen"
  /\ files' = archiveOpen(files, zipPath(up.baseName))
  /\ \/ up' = [up EXCEPT !.pc = "zip", !.stream = "open", !.arc = {},
                         !.todo = listing(files, baseDirOf(up))]
     \/ /\ ~isDirectory(dirs, baseDirOf(up))
        /\ up' = respond([up EXCEPT !.stream = "error"], 500, "archive")
  /\ hist' = Track(hist, dirs, files')
  /\ UNCHANGED <<dirs, ct, faults, sj, req>>

\* The archiver reads one listed file and the stream writes it out, or the
\* archiver emits 'error' (line 146) and the promise rejects: on an injected
\* read failure, and possibly on a file that has gone.
UploadZipAppend ==
  /\ up.pc = "zip"
  /\ \E p \in up.todo :
       \/ /\ up' = [up EXCEPT !.todo = @ \ {p},
                              !.arc = archiveAdd(files, baseDirOf(up), @, p)]
          /\ files' = archiveWrite(files, zipPath(up.baseName), up'.arc, FALSE)
          /\ UNCHANGED faults
       \/ /\ faults > 0 \/ p \notin DOMAIN files
          /\ faults' = IF p \in DOMAIN files THEN faults - 1 ELSE faults
          /\ up' = respond([up EXCEPT !.stream = "error"], 500, "archive")
          /\ UNCHANGED files
  /\ hist' = Track(hist, dirs, files')
  /\ UNCHANGED <<dirs, ct, sj, req>>

\* archive.finalize() is through and the output stream emits 'close'
\* (line 145): the promise resolves.
UploadZipClose ==
  /\ up.pc = "zip"
  /\ up.todo = {}
  /\ files' = archiveWrite(files, zipPath(up.baseName), up.arc, TRUE)
  /\ up' = [up EXCEPT !.pc = "remove", !.stream = "closed"]
  /\ hist' = Track(hist, dirs, files')
  /\ UNCHANGED <<dirs, ct, faults, sj, req>>

\* Lines 153-158: fs.remove(baseDir), a failure of which is only logged,
\* then the response.
UploadRemove ==
  /\ up.pc = "remove"
  /\ \/ /\ dirs' = removeDirs(dirs, baseDirOf(up))
        /\ files' = removeFiles(files, baseDirOf(up))
        /\ UNCHANGED faults
     \/ /\ faults > 0
        /\ faults' = faults - 1
        /\ UNCHANGED <<dirs, files>>
  /\ up' = respond(up, 200, "none")
  /\ hist' = Track(hist, dirs', files')
  /\ UNCHANGED <<ct, sj, req>>


----------------------------------------------------------------------------
(* compactDirectory and compactAll.                                        *)

\* The outcome objects of compactDirectory, lines 26, 29, 43 and 45
Skipped(name)      == [kind |-> "skipped", name |-> name, info |-> "not-directory"]
Removed(name)      == [kind |-> "removed", name |-> name, info |-> "zipExisted"]
Compacted(name)    == [kind |-> "compacted", name |-> name, info |-> "none"]
Failed(name, msg)  == [kind |-> "error", name |-> name, info |-> msg]

\* A task that runs nothing. mode tells compactAll ("all") from a direct
\* call of compactDirectory ("one"); results are the outcomes collected by
\* compactAll, or the outcomes the direct caller received from its last two
\* calls (during a call: from the call before).
IdleTask ==
  [mode |-> "idle", pc |-> "idle", entries |-> <<>>, cur |-> <<>>,
   todo |-> {}, arc |-> {}, stream |-> "none", results |-> <<>>]

\* the orders in which fs.readdir may list the directories
Orderings(S) ==
  {o \in [1..Cardinality(S) -> S] : \A i, j \in 1..Cardinality(S) : o[i] = o[j] => i = j}

\* return with an error outcome ending the sweep
returnAbortsOnError(c, outcome) ==
  IF c.mode = "all"
  THEN [IdleTask EXCEPT !.mode = "all",
                        !.results = Append(c.results, outcome),
                        !.entries = Tail(c.entries),
                        !.pc = IF Len(c.entries) = 1 \/ outcome.kind = "error"
                               THEN "done" ELSE "lock"]
  ELSE [IdleTask EXCEPT !.mode = "one", !.cur = c.cur,
                        !.results = Append(c.results, outcome), !.pc = "done"]

\* compactDirectory returns: compactAll pushes the outcome and goes on with
\* the next entry (line 60), a direct caller just receives it
return(c, outcome) ==
  IF c.mode = "all"
  THEN [IdleTask EXCEPT !.mode = "all",
                        !.results = Append(c.results, outcome),
                        !.entries = Tail(c.entries),
                        !.pc = IF Len(c.entries) = 1 THEN "done" ELSE "lock"]
  ELSE [IdleTask EXCEPT !.mode = "one", !.cur = c.cur,
                        !.results = Append(c.results, outcome), !.pc = "done"]

\* compactAll, line 50: the directory entries are read.
CompactAllStart(t) ==
  /\ ct[t].pc \in {"idle", "done"}
  /\ \E o \in Orderings(rootDirNames(dirs)) :
       ct' = [ct EXCEPT ![t] = [IdleTask EXCEPT !.mode = "all", !.entries = o,
                                                !.pc = IF Len(o) = 0 THEN "done" ELSE "lock"]]
  /\ hist' = [hist EXCEPT !.held[t] = {n \in rootDirNames(dirs) : pathExists(dirs, files, lockPath(n))},
                          !.listed[t] = rootDirNames(dirs),
                          !.passed[t] = {}]
  /\ UNCHANGED <<dirs, files, up, faults, sj, req>>

\* passedOver without the lock check of lines 57-58
passedOverHiddenOnly(d, f, name) == startsWith(name, <<Dot>>)

\* lines 55-58: a hidden directory, or one whose lock marker exists, is
\* passed over
passedOver(d, f, name) ==
  \/ startsWith(name, <<Dot>>)
  \/ pathExists(d, f, lockPath(name))

\* compactAll, lines 53-60: hidden and locked directories are passed over,
\* without an outcome; for any other, compactDirectory is called.
CompactAllLock(t) ==
  /\ ct[t].pc = "lock"
  /\ LET name == Head(ct[t].entries)
         skip == passedOver(dirs, files, name)
     IN  /\ ct' = [ct EXCEPT ![t] =
                    IF skip
                    THEN [@ EXCEPT !.entries = Tail(@),
                                   !.pc = IF Len(ct[t].entries) = 1 THEN "done" ELSE "lock"]
                    ELSE [@ EXCEPT !.cur = name, !.pc = "stat"]]
         /\ hist' = IF skip THEN [hist EXCEPT !.passed[t] = @ \cup {name}] ELSE hist
  /\ UNCHANGED <<dirs, files, up, faults, sj, req>>

\* compactDirectory(name) is called by itself.
CompactDirectoryCall(t, name) ==
  /\ ct[t].pc \in {"idle", "done"}
  /\ ct' = [ct EXCEPT ![t] =
              [IdleTask EXCEPT !.mode = "one", !.cur = name, !.pc = "stat",
                               !.results = IF ct[t].mode = "one"
                                           THEN <<ct[t].results[Len(ct[t].results)]>>
                                           ELSE <<>>]]
  /\ UNCHANGED <<dirs, files, up, faults, hist, sj, req>>

\* CompactStat with the guard of line 26 reduced to !stat: a regular file
\* passes
CompactStatExistsOnly(t) ==
  /\ ct[t].pc = "stat"
  /\ ct' = [ct EXCEPT ![t] =
              IF pathExists(dirs, files, folderPath(ct[t].cur))
              THEN [@ EXCEPT !.pc = "exists"]
              ELSE return(@, Skipped(ct[t].cur))]
  /\ UNCHANGED <<dirs, files, up, faults, hist, sj, req>>

\* CompactStat without the guard of line 26
CompactStatNoCheck(t) ==
  /\ ct[t].pc = "stat"
  /\ ct' = [ct EXCEPT ![t].pc = "exists"]
  /\ UNCHANGED <<dirs, files, up, faults, hist, sj, req>>

\* Lines 25-26: fs.stat(folderPath).
CompactStat(t) ==
  /\ ct[t].pc = "stat"
  /\ ct' = [ct EXCEPT ![t] =
              IF isDirectory(dirs, folderPath(ct[t].cur))
              THEN [@ EXCEPT !.pc = "exists"]
              ELSE return(@, Skipped(ct[t].cur))]
  /\ UNCHANGED <<dirs, files, up, faults, hist, sj, req>>

\* CompactExists without the test of line 27: the folder is archived anew
CompactExistsAlwaysArchive(t) ==
  /\ ct[t].pc = "exists"
  /\ ct' = [ct EXCEPT ![t].pc = "zipOpen"]
  /\ UNCHANGED <<dirs, files, up, faults, hist, sj, req>>

\* Line 27: fs.pathExists(zipPath).
CompactExists(t) ==
  /\ ct[t].pc = "exists"
  /\ ct' = [ct EXCEPT ![t].pc =
              IF pathExists(dirs, files, zipPath(ct[t].cur)) THEN "removeRedundant" ELSE "zipOpen"]
  /\ UNCHANGED <<dirs, files, up, faults, hist, sj, req>>

\* Line 29: the archive exists, the folder is removed.
CompactRemoveRedundant(t) ==
  /\ ct[t].pc = "removeRedundant"
  /\ \/ /\ dirs' = removeDirs(dirs, folderPath(ct[t].cur))
        /\ files' = removeFiles(files, folderPath(ct[t].cur))
        /\ ct' = [ct EXCEPT ![t] = return(@, Removed(ct[t].cur))]
        /\ UNCHANGED faults
     \/ /\ faults > 0
        /\ faults' = faults - 1
        /\ ct' = [ct EXCEPT ![t] = return(@, Failed(ct[t].cur, "remove")) ]
        /\ UNCHANGED <<dirs, files>>
  /\ hist' = Track(hist, dirs', files')
  /\ UNCHANGED <<up, sj, req>>

\* onArchiveError with the rejection swallowed: line 42 is reached all the same
onArchiveErrorGoesOn(c) == [c EXCEPT !.pc = "remove", !.stream = "error"]

\* what compactDirectory does when the archiver emits 'error': the promise
\* rejects (line 37) and the catch of line 44 returns the error outcome
onArchiveError(c) == return([c EXCEPT !.stream = "error"], Failed(c.cur, "archive"))

\* Lines 33-40: the write stream opens the archive file and the archiver
\* lists the folder. Of a folder that has gone, the archiver finds no files
\* or emits 'error', depending on its version: both are possible.
CompactZipOpen(t) ==
  /\ ct[t].pc = "zipOpen"
  /\ files' = archiveOpen(files, zipPath(ct[t].cur))
  /\ \/ ct' = [ct EXCEPT ![t].pc = "zip", ![t].stream = "open", ![t].arc = {},
                         ![t].todo = listing(files, folderPath(ct[t].cur))]
     \/ /\ ~isDirectory(dirs, folderPath(ct[t].cur))
        /\ ct' = [ct EXCEPT ![t] = onArchiveError(@)]
  /\ hist' = Track(hist, dirs, files')
  /\ UNCHANGED <<dirs, up, faults, sj, req>>

\* CompactZipAppend with a catch that deletes the unfinished archive
CompactZipAppendCleanup(t) ==
  /\ ct[t].pc = "zip"
  /\ \E p \in ct[t].todo :
       \/ /\ ct' = [ct EXCEPT ![t].todo = @ \ {p},
                              ![t].arc = archiveAdd(files, folderPath(ct[t].cur), @, p)]
          /\ files' = archiveWrite(files, zipPath(ct[t].cur), ct'[t].arc, FALSE)
          /\ UNCHANGED faults
       \/ /\ faults > 0 \/ p \notin DOMAIN files
          /\ faults' = IF p \in DOMAIN files THEN faults - 1 ELSE faults
          /\ ct' = [ct EXCEPT ![t] = onArchiveError(@)]
          /\ files' = removeFiles(files, zipPath(ct[t].cur))
  /\ hist' = Track(hist, dirs, files')
  /\ UNCHANGED <<dirs, up, sj, req>>

\* The archiver reads one listed file and the stream writes it out, or the
\* archiver emits 'error': on an injected read failure, and possibly on a
\* file that has gone.
CompactZipAppend(t) ==
  /\ ct[t].pc = "zip"
  /\ \E p \in ct[t].todo :
       \/ /\ ct' = [ct EXCEPT ![t].todo = @ \ {p},
                              ![t].arc = archiveAdd(files, folderPath(ct[t].cur), @, p)]
          /\ files' = archiveWrite(files, zipPath(ct[t].cur), ct'[t].arc, FALSE)
          /\ UNCHANGED faults
       \/ /\ faults > 0 \/ p \notin DOMAIN files
          /\ faults' = IF p \in DOMAIN files THEN faults - 1 ELSE faults
          /\ ct' = [ct EXCEPT ![t] = onArchiveError(@)]
          /\ UNCHANGED files
  /\ hist' = Track(hist, dirs, files')
  /\ UNCHANGED <<dirs, up, sj, req>>

\* where compactDirectory goes on once the output stream has emitted
\* 'close' (line 36): the await of line 33 is over, line 42 is next
onArchiveClose(c) == [c EXCEPT !.pc = "remove", !.stream = "closed"]

\* archive.finalize() is through and the output stream emits 'close'.
CompactZipClose(t) ==
  /\ ct[t].pc = "zip"
  /\ ct[t].todo = {}
  /\ files' = archiveWrite(files, zipPath(ct[t].cur), ct[t].arc, TRUE)
  /\ ct' = [ct EXCEPT ![t] = onArchiveClose(@)]
  /\ hist' = Track(hist, dirs, files')
  /\ UNCHANGED <<dirs, up, faults, sj, req>>

\* Lines 42-43: the folder is removed after the archive was written.
CompactRemove(t) ==
  /\ ct[t].pc = "remove"
  /\ \/ /\ dirs' = removeDirs(dirs, folderPath(ct[t].cur))
        /\ files' = removeFiles(files, folderPath(ct[t].cur))
        /\ ct' = [ct EXCEPT ![t] = return(@, Compacted(ct[t].cur))]
        /\ UNCHANGED faults
     \/ /\ faults > 0
        /\ faults' = faults - 1
        /\ ct' = [ct EXCEPT ![t] = return(@, Failed(ct[t].cur, "remove"))]
        /\ UNCHANGED <<dirs, files>>
  /\ hist' = Track(hist, dirs', files')
  /\ UNCHANGED <<up, sj, req>>

\* app.delete('/delete/file/:name'), lines 301-309
DeleteFile(name) ==
  /\ LET filePath == safeJoin(UPLOADS_DIR, name)
     IN  IF filePath.threw
         THEN UNCHANGED <<dirs, files>>
         ELSE /\ dirs' = removeDirs(dirs, filePath.full)
              /\ files' = removeFiles(files, filePath.full)
  /\ hist' = Track(hist, dirs', files')
  /\ UNCHANGED <<up, ct, faults, sj, req>>

\* app.delete('/delete/folder/:name'), lines 313-316: the paths are built
\* (an 'Invalid path' is answered with 400) and fs.remove(folderPath) begins.
DeleteFolderStart(name) ==
  /\ req.pc = "idle"
  /\ req' = IF safeJoin(UPLOADS_DIR, name).threw
            THEN answer([IdleReq EXCEPT !.op = "folder", !.name = name], 400, {})
            ELSE [IdleReq EXCEPT !.op = "folder", !.name = name, !.pc = "removeFolder"]
  /\ UNCHANGED <<dirs, files, up, ct, faults, hist, sj>>

\* Line 316: await fs.remove(folderPath); a failure goes to the catch.
DeleteFolderRemove ==
  /\ req.op = "folder" /\ req.pc = "removeFolder"
  /\ LET folder == safeJoin(UPLOADS_DIR, req.name).full
     IN  \/ /\ dirs' = removeDirs(dirs, folder)
            /\ files' = removeFiles(files, folder)
            /\ req' = [req EXCEPT !.pc = "existsZip"]
            /\ UNCHANGED faults
         \/ /\ faults > 0
            /\ faults' = faults - 1
            /\ req' = answer(req, 400, {})
            /\ UNCHANGED <<dirs, files>>
  /\ hist' = Track(hist, dirs', files')
  /\ UNCHANGED <<up, ct, sj>>

\* Line 317: await fs.pathExists(zipPath).
DeleteFolderExists ==
  /\ req.op = "folder" /\ req.pc = "existsZip"
  /\ req' = IF pathExists(dirs, files, zipPath(req.name))
            THEN [req EXCEPT !.pc = "removeZip"]
            ELSE answer(req, 200, {})
  /\ UNCHANGED <<dirs, files, up, ct, faults, hist, sj>>

\* Lines 317-318: await fs.remove(zipPath), then the response.
DeleteFolderRemoveZip ==
  /\ req.op = "folder" /\ req.pc = "removeZip"
  /\ \/ /\ dirs' = removeDirs(dirs, zipPath(req.name))
        /\ files' = removeFiles(files, zipPath(req.name))
        /\ req' = answer(req, 200, {})
        /\ UNCHANGED faults
     \/ /\ faults > 0
        /\ faults' = faults - 1
        /\ req' = answer(req, 400, {})
        /\ UNCHANGED <<dirs, files>>
  /\ hist' = Track(hist, dirs', files')
  /\ UNCHANGED <<up, ct, sj>>

\* the names of all entries directly under the uploads root (fs.readdir)
rootNames(d, f) ==
  {substring(p, Len(UPLOADS_DIR) + 1) :
     p \in {q \in d \cup DOMAIN f : Ancestors(q) = {} /\ Under(q, UPLOADS_DIR)}}

\* app.delete('/delete/all'), line 327: the entries are read.
DeleteAllStart ==
  /\ req.pc = "idle"
  /\ \E o \in Orderings(rootNames(dirs, files)) :
       req' = IF Len(o) = 0
              THEN answer([IdleReq EXCEPT !.op = "all"], 200, {})
              ELSE [IdleReq EXCEPT !.op = "all", !.pc = "removeEntry", !.entries = o]
  /\ UNCHANGED <<dirs, files, up, ct, faults, hist, sj>>

\* Lines 328-332: the next entry is removed; after the last, the response.
\* A failure goes to the catch of line 333.
DeleteAllRemove ==
  /\ req.op = "all" /\ req.pc = "removeEntry"
  /\ LET target == join(UPLOADS_DIR, Head(req.entries))
     IN  \/ /\ dirs' = removeDirs(dirs, target)
            /\ files' = removeFiles(files, target)
            /\ req' = IF Len(req.entries) = 1
                      THEN answer(req, 200, {})
                      ELSE [req EXCEPT !.entries = Tail(@)]
            /\ UNCHANGED faults
         \/ /\ faults > 0
            /\ faults' = faults - 1
            /\ req' = answer(req, 500, {})
            /\ UNCHANGED <<dirs, files>>
  /\ hist' = Track(hist, dirs', files')
  /\ UNCHANGED <<up, ct, sj>>

\* app.get('/download/file/:filename'), lines 166-174: the file is sent
\* (res.download answers a directory with 404), or 404, or 400.
FetchFile(name) ==
  /\ req.pc = "idle"
  /\ LET filePath == safeJoin(UPLOADS_DIR, name)
         r == [IdleReq EXCEPT !.op = "fetch", !.name = name]
     IN  req' = IF filePath.threw THEN answer(r, 400, {})
                ELSE IF filePath.full \in DOMAIN files
                THEN answer(r, 200, {files[filePath.full]})
                ELSE answer(r, 404, {})
  /\ UNCHANGED <<dirs, files, up, ct, faults, hist, sj>>

\* the ceiling of line 219, 1e9
SizeLimit == 1000000000

\* st.size of a file: a file Data(b) is b bytes long, and archives are not
\* among the files measured
size(c) == IF c.kind = "data" THEN c.bytes ELSE 0

RECURSIVE sumSizes(_, _)
sumSizes(f, ps) ==
  IF ps = {} THEN 0
  ELSE LET p == CHOOSE q \in ps : TRUE
       IN  size(f[p]) + sumSizes(f, ps \ {p})

\* the entries fs.readdir(dir) lists: its directories and its files
childDirs(d, dir)  == {q \in d : Under(q, dir) /\ ~includes(relOf(q, dir), Sep)}
childFiles(f, dir) == {q \in DOMAIN f : Under(q, dir) /\ ~includes(relOf(q, dir), Sep)}

\* computeFolderSize(dir), lines 204-205
ComputeFolderSizeCall(dir) ==
  /\ req.pc = "idle"
  /\ req' = [IdleReq EXCEPT !.op = "size", !.name = dir, !.pc = "loop", !.stack = <<dir>>]
  /\ UNCHANGED <<dirs, files, up, ct, faults, hist, sj>>

\* ComputeFolderSizeStep without the test of line 219
ComputeFolderSizeStepNoLimit ==
  /\ req.op = "size" /\ req.pc = "loop"
  /\ LET current == req.stack[Len(req.stack)]
         rest    == SubSeq(req.stack, 1, Len(req.stack) - 1)
     IN  \E o \in Orderings(IF current \in dirs THEN childDirs(dirs, current) ELSE {}) :
           LET stack == rest \o o
               total == req.total +
                        (IF current \in dirs THEN sumSizes(files, childFiles(files, current)) ELSE 0)
           IN  req' = IF Len(stack) = 0
                      THEN [IdleReq EXCEPT !.op = "size", !.name = req.name,
                                           !.stack = stack, !.body = {total}]
                      ELSE [req EXCEPT !.stack = stack, !.total = total]
  /\ UNCHANGED <<dirs, files, up, ct, faults, hist, sj>>

\* One round of the loop of lines 206-220: a directory is popped and read,
\* its directories are pushed and the sizes of its files added (a directory
\* that cannot be read adds nothing, line 217); then the test of line 219,
\* and the return of line 221 when the loop is left.
ComputeFolderSizeStep ==
  /\ req.op = "size" /\ req.pc = "loop"
  /\ LET current == req.stack[Len(req.stack)]
         rest    == SubSeq(req.stack, 1, Len(req.stack) - 1)
     IN  \E o \in Orderings(IF current \in dirs THEN childDirs(dirs, current) ELSE {}) :
           LET stack == rest \o o
               total == req.total +
                        (IF current \in dirs THEN sumSizes(files, childFiles(files, current)) ELSE 0)
           IN  req' = IF total > SizeLimit \/ Len(stack) = 0
                      THEN [IdleReq EXCEPT !.op = "size", !.name = req.name,
                                           !.stack = stack, !.body = {total}]
                      ELSE [req EXCEPT !.stack = stack, !.total = total]
  /\ UNCHANGED <<dirs, files, up, ct, faults, hist, sj>>


----------------------------------------------------------------------------
(* Spec: upload requests, compactAll sweeps and file deletions, in every   *)
(* interleaving of their awaits.                                           *)

D == <<"d">>
E == <<"e">>
PathDx   == <<"d", Sep, "x">>
PathDsy  == <<"d", Sep, "s", Sep, "y">>
PathDesc == <<"d", Sep, Dot, Dot, Sep, Dot, Dot, Sep, "p">>

\* The requests: the folder docs/a.txt, docs/sub/b.txt of the spec's
\* scenario, a folder batch whose second entry climbs out of the root, a
\* folder batch of one file, a flat upload of a file named like d's lock marker, and a request without
\* files.
Batches ==
  { Batch(<<PathDx, PathDsy>>, <<File(<<"x">>, 1), File(<<"y">>, 2)>>),
    Batch(<<PathDx, PathDesc>>, <<File(<<"x">>, 1), File(<<"p">>, 2)>>),
    Batch(<<PathDsy>>, <<File(<<"y">>, 2)>>),
    Batch(<<>>, <<File(D \o LockExt, 0)>>),
    Batch(<<>>, <<>>) }

\* the files that delete requests name
DeleteNames == {D \o LockExt}

\* the tasks that run compactAll while requests are served
Sweepers == {"c1"}

NoFiles == [p \in {} |-> Data(0)]
NoHist  == [held |-> [t \in Tasks |-> {}], listed |-> [t \in Tasks |-> {}],
            passed |-> [t \in Tasks |-> {}]]

Init ==
  /\ dirs = {}
  /\ files = NoFiles
  /\ up = IdleUpload
  /\ ct = [t \in Tasks |-> IdleTask]
  /\ faults = MaxFaults
  /\ hist = NoHist
  /\ sj = NoCall
  /\ req = IdleReq

Next ==
  \/ \E b \in Batches : UploadStart(b)
  \/ UploadFlatWrite
  \/ UploadEnsureDir
  \/ UploadWrite
  \/ UploadZipOpen
  \/ UploadZipAppend
  \/ UploadZipClose
  \/ UploadRemove
  \/ \E t \in Sweepers : CompactAllStart(t)
  \/ \E t \in Sweepers : CompactAllLock(t)
  \/ \E t \in Sweepers : CompactStat(t)
  \/ \E t \in Sweepers : CompactExists(t)
  \/ \E t \in Sweepers : CompactRemoveRedundant(t)
  \/ \E t \in Sweepers : CompactZipOpen(t)
  \/ \E t \in Sweepers : CompactZipAppend(t)
  \/ \E t \in Sweepers : CompactZipClose(t)
  \/ \E t \in Sweepers : CompactRemove(t)
  \/ \E n \in DeleteNames : DeleteFile(n)

Spec == Init /\ [][Next]_vars

\* the model's file system is well formed
FsOK == dirs \cap DOMAIN files = {}


----------------------------------------------------------------------------
(* SpecSeq: the same operations one after the other: a request or a sweep  *)
(* begins only when nothing else is in flight.                             *)

Quiet == up.pc = "idle" /\ \A t \in Tasks : ct[t].pc \in {"idle", "done"}

NextSeq ==
  \/ Quiet /\ \E b \in Batches : UploadStart(b)
  \/ UploadFlatWrite
  \/ UploadEnsureDir
  \/ UploadWrite
  \/ UploadZipOpen
  \/ UploadZipAppend
  \/ UploadZipClose
  \/ UploadRemove
  \/ Quiet /\ \E t \in Sweepers : CompactAllStart(t)
  \/ \E t \in Sweepers : CompactAllLock(t)
  \/ \E t \in Sweepers : CompactStat(t)
  \/ \E t \in Sweepers : CompactExists(t)
  \/ \E t \in Sweepers : CompactRemoveRedundant(t)
  \/ \E t \in Sweepers : CompactZipOpen(t)
  \/ \E t \in Sweepers : CompactZipAppend(t)
  \/ \E t \in Sweepers : CompactZipClose(t)
  \/ \E t \in Sweepers : CompactRemove(t)
  \/ Quiet /\ \E n \in DeleteNames : DeleteFile(n)

SpecSeq == Init /\ [][NextSeq]_vars

----------------------------------------------------------------------------
(* SpecPath: one call of safeJoin.                                         *)

InitPath ==
  /\ dirs = {}
  /\ files = NoFiles
  /\ up = IdleUpload
  /\ ct = [t \in Tasks |-> IdleTask]
  /\ faults = 0
  /\ hist = NoHist
  /\ \E b \in SjBases, target \in StringsUpTo(MaxLen) :
       sj = [NoCall EXCEPT !.base = b, !.target = target]
  /\ req = IdleReq

SafeJoinCall ==
  /\ sj.state = "idle"
  /\ LET r == safeJoin(sj.base, sj.target)
     IN  sj' = [sj EXCEPT !.state = "done", !.threw = r.threw,
                          !.full = IF r.threw THEN <<>> ELSE r.full]
  /\ UNCHANGED <<dirs, files, up, ct, faults, hist, req>>

NextPath == SafeJoinCall

SpecPath == InitPath /\ [][NextPath]_vars

----------------------------------------------------------------------------
(* SpecCompact: compaction of what earlier uploads left behind (the case   *)
(* compaction at startup is for), by two tasks that run compactAll or call *)
(* compactDirectory, in every interleaving.                                *)

\* Folder d holds x and s/y, folder e holds x: uploads that ended before
\* their archive step leave such folders (a failed write or validation, an
\* archiver error, a stopped process). layout 2 adds d's lock marker, which
\* a flat upload of that name writes; layout 3 has d's finished archive
\* beside the folder, as after a failed removal at line 153.
dirD == folderPath(D)
dirE == folderPath(E)
LeftDirs  == {dirD, dirD \o <<Sep, "s">>, dirE}
LeftFiles ==
  (dirD \o <<Sep, "x">> :> Data(1)) @@ (dirD \o <<Sep, "s", Sep, "y">> :> Data(2))
  @@ (dirE \o <<Sep, "x">> :> Data(2))

Layouts ==
  { [dirs |-> LeftDirs, files |-> LeftFiles],
    [dirs |-> LeftDirs, files |-> outputFile(LeftFiles, lockPath(D), Data(0))],
    [dirs |-> LeftDirs,
     files |-> outputFile(LeftFiles, zipPath(D), Zip(contents(LeftFiles, dirD), TRUE))] }

\* c1 runs compactAll, c2 calls compactDirectory
Callers == {"c2"}

InitCompact ==
  /\ \E l \in Layouts : dirs = l.dirs /\ files = l.files
  /\ up = IdleUpload
  /\ ct = [t \in Tasks |-> IdleTask]
  /\ faults = MaxFaults
  /\ hist = NoHist
  /\ sj = NoCall
  /\ req = IdleReq

NextCompact ==
  \/ \E t \in Sweepers : CompactAllStart(t)
  \/ \E t \in Sweepers : CompactAllLock(t)
  \/ \E t \in Callers, n \in {D, E} : CompactDirectoryCall(t, n)
  \/ \E t \in Tasks : CompactStat(t)
  \/ \E t \in Tasks : CompactExists(t)
  \/ \E t \in Tasks : CompactRemoveRedundant(t)
  \/ \E t \in Tasks : CompactZipOpen(t)
  \/ \E t \in Tasks : CompactZipAppend(t)
  \/ \E t \in Tasks : CompactZipClose(t)
  \/ \E t \in Tasks : CompactRemove(t)
  \/ \E n \in DeleteNames : DeleteFile(n)

SpecCompact == InitCompact /\ [][NextCompact]_vars

----------------------------------------------------------------------------
(* SpecDelete: delete requests on what earlier uploads left behind.        *)

\* the leftovers of Layouts, and one more: a loose file beside folder e and
\* d's finished archive
LooseX == join(UPLOADS_DIR, <<"x">>)
DeleteLayouts ==
  Layouts \cup
  { [dirs |-> {dirE},
     files |-> (dirE \o <<Sep, "x">> :> Data(2)) @@ (LooseX :> Data(1))
               @@ (zipPath(D) :> Zip(contents(LeftFiles, dirD), TRUE))] }

\* the names delete-folder requests carry: d, e, and "." (DELETE
\* /delete/folder/%2e)
DeleteFolderNames == {D, E, <<Dot>>}

InitDelete ==
  /\ \E l \in DeleteLayouts : dirs = l.dirs /\ files = l.files
  /\ up = IdleUpload
  /\ ct = [t \in Tasks |-> IdleTask]
  /\ faults = MaxFaults
  /\ hist = NoHist
  /\ sj = NoCall
  /\ req = IdleReq

NextDelete ==
  \/ \E n \in DeleteFolderNames : DeleteFolderStart(n)
  \/ DeleteFolderRemove
  \/ DeleteFolderExists
  \/ DeleteFolderRemoveZip
  \/ DeleteAllStart
  \/ DeleteAllRemove
  \/ \E n \in DeleteNames : DeleteFile(n)

SpecDelete == InitDelete /\ [][NextDelete]_vars

----------------------------------------------------------------------------
(* SpecFlat: flat uploads, downloads and file deletions, one request at a  *)
(* time, in an uploads root that is empty or holds the leftover folders.   *)

X == <<"x">>

\* The flat requests: a file x, the same name with other bytes, a batch that
\* names x twice, a file whose original name has a directory part, and files
\* named like d's archive and d's lock marker.
FlatBatches ==
  { Batch(<<>>, <<File(X, 1)>>),
    Batch(<<>>, <<File(X, 2)>>),
    Batch(<<>>, <<File(X, 1), File(X, 2)>>),
    Batch(<<>>, <<File(<<"u", Sep, "x">>, 0)>>),
    Batch(<<>>, <<File(D \o ZipExt, 1)>>),
    Batch(<<>>, <<File(D \o LockExt, 0)>>) }

\* the names download and delete requests carry
FlatNames == {X, D \o ZipExt}

InitFlat ==
  /\ \E l \in {[dirs |-> {}, files |-> NoFiles], [dirs |-> LeftDirs, files |-> LeftFiles]} :
       dirs = l.dirs /\ files = l.files
  /\ up = IdleUpload
  /\ ct = [t \in Tasks |-> IdleTask]
  /\ faults = MaxFaults
  /\ hist = NoHist
  /\ sj = NoCall
  /\ req = IdleReq

NextFlat ==
  \/ \E b \in FlatBatches : UploadStart(b)
  \/ UploadFlatWrite
  \/ up.pc = "idle" /\ \E n \in FlatNames : FetchFile(n)
  \/ up.pc = "idle" /\ \E n \in FlatNames : DeleteFile(n)

SpecFlat == InitFlat /\ [][NextFlat]_vars

----------------------------------------------------------------------------
(* SpecSize: computeFolderSize on every tree of up to three directories    *)
(* and four files.                                                         *)

\* the lengths of the files: one byte, and two lengths a little over half
\* the ceiling
FileSizes == {1, 520000000, 530000000}

\* folder d with, each present or not, the directories d/s and d/r and the
\* files d/x, d/w, d/s/y, d/r/z
dirS == dirD \o <<Sep, "s">>
dirR == dirD \o <<Sep, "r">>
TreeSlots ==
  { [dir |-> dirD, file |-> dirD \o <<Sep, "x">>], [dir |-> dirD, file |-> dirD \o <<Sep, "w">>],
    [dir |-> dirS, file |-> dirS \o <<Sep, "y">>], [dir |-> dirR, file |-> dirR \o <<Sep, "z">>] }

InitSize ==
  /\ \E sub \in SUBSET {dirS, dirR} :
       /\ dirs = {dirD} \cup sub
       /\ \E ps \in SUBSET {sl.file : sl \in {t \in TreeSlots : t.dir \in dirs}} :
            \E f \in [ps -> FileSizes] : files = [p \in ps |-> Data(f[p])]
  /\ up = IdleUpload
  /\ ct = [t \in Tasks |-> IdleTask]
  /\ faults = 0
  /\ hist = NoHist
  /\ sj = NoCall
  /\ req = IdleReq

NextSize ==
  \/ ComputeFolderSizeCall(dirD)
  \/ ComputeFolderSizeStep

\* the event loop runs every continuation that is ready
SpecSize == InitSize /\ [][NextSize]_vars /\ WF_vars(ComputeFolderSizeStep)

----------------------------------------------------------------------------
(* SpecCall: compactDirectory called, one call after the other, on names   *)
(* of every kind: a folder, a loose file, an archive, a name not there.    *)

CallNames == {D, E, X, D \o ZipExt, <<"n">>}

InitCall == InitDelete

NextCall ==
  \/ \E t \in Callers, n \in CallNames : CompactDirectoryCall(t, n)
  \/ \E t \in Callers : CompactStat(t)
  \/ \E t \in Callers : CompactExists(t)
  \/ \E t \in Callers : CompactRemoveRedundant(t)
  \/ \E t \in Callers : CompactZipOpen(t)
  \/ \E t \in Callers : CompactZipAppend(t)
  \/ \E t \in Callers : CompactZipClose(t)
  \/ \E t \in Callers : CompactRemove(t)

SpecCall == InitCall /\ [][NextCall]_vars

----------------------------------------------------------------------------
(* The claims.                                                             *)

\* the upload in flight is a folder upload that has written its first file
\* and has not yet finished its archive
MidConstruction == up.pc \in {"write", "zipOpen", "zip"} /\ up.wrote # {}

\* task t takes a step of a compactAll sweep
SweepStep(t) == ct[t].mode = "all" /\ ct'[t] # ct[t]

\* C2: while a folder-mode ingest of R is between its first write into R and
\* the end of its own archive step, no compactAll sweep archives or removes
\* folder R.
C2_NoCompactionMidConstruction ==
  [][\A t \in Tasks :
       ~(/\ MidConstruction
         /\ SweepStep(t)
         /\ ct[t].cur = up.baseName
         /\ ct[t].pc \in {"removeRedundant", "zipOpen", "zip", "remove"}
         /\ (dirs' # dirs \/ files' # files))]_vars

\* C3: from before the first write of a folder-mode ingest of R until its
\* archive step has finished, the lock marker R.uploading exists.
C3_LockBracketsIngest ==
  up.pc \in {"write", "zipOpen", "zip"} => pathExists(dirs, files, lockPath(up.baseName))

\* the handler answers in this step
Responds == up.pc # "idle" /\ up'.pc = "idle"

\* C6: an ingest that fails path validation has created no directory and
\* written no file.
C6_PathEscapeNoSideEffects ==
  [][(Responds /\ up'.cause = "path") => (up.made = {} /\ up.wrote = {})]_vars

\* the entries the archive of a batch must hold: each relative path, the
\* leading R/ stripped, with its bytes
expected(b) ==
  {<<relativeOf(b.paths, b.files, k), b.files[k].buffer>> : k \in 1..Len(b.files)}

\* C7: when a folder-mode ingest of root R succeeds (and no I/O failure was
\* injected), R.zip holds exactly the batch's relative paths and contents,
\* and folder R no longer exists.
C7_RoundTrip ==
  [][(Responds /\ up.pc = "remove" /\ faults' = MaxFaults) =>
       /\ zipPath(up.baseName) \in DOMAIN files'
       /\ files'[zipPath(up.baseName)] = Zip(expected(up.batch), TRUE)
       /\ ~isDirectory(dirs', baseDirOf(up))]_vars

\* C5: safeJoin returns a strict descendant of the root or fails.
C5_SafeJoinStaysInside ==
  (sj.state = "done" /\ ~sj.threw) => StrictDescendant(sj.full, sj.base)


\* what can be seen of folder n and of its archive
folderView(d, f, n) ==
  [dir |-> isDirectory(d, folderPath(n)),
   sub |-> {q \in d : Under(q, folderPath(n))},
   content |-> contents(f, folderPath(n))]
zipView(d, f, n) ==
  [dir |-> isDirectory(d, zipPath(n)),
   content |-> {f[p] : p \in {zipPath(n)} \cap DOMAIN f}]

\* C1: a step of a compactAll sweep leaves folder F and F.zip as they are,
\* for every folder F whose lock marker has existed since the sweep began.
C1_LockedFolderUntouched ==
  [][\A t \in Tasks : \A n \in hist.held[t] :
       (SweepStep(t) /\ n \in hist'.held[t]) =>
         /\ folderView(dirs', files', n) = folderView(dirs, files, n)
         /\ zipView(dirs', files', n) = zipView(dirs, files, n)]_vars

\* a sweep is over that compacted a folder while another one, still there,
\* was locked throughout
C1_Witness ==
  \E t \in Tasks : \E n \in hist.held[t] :
    /\ ct[t].mode = "all" /\ ct[t].pc = "done"
    /\ isDirectory(dirs, folderPath(n))
    /\ \E k \in 1..Len(ct[t].results) : ct[t].results[k].kind = "compacted"

\* folder n exists before the step and not after it
RemovesFolder(n) == isDirectory(dirs, folderPath(n)) /\ ~isDirectory(dirs', folderPath(n))

\* C4: compactDirectory (lines 32-43) and the archive step of the upload
\* handler (lines 141-153) remove the folder only when their archive has
\* been written in full and the output stream has closed.
C4_ArchiveBeforeDelete ==
  [][/\ \A t \in Tasks :
          (/\ ct'[t] # ct[t]
           /\ ct[t].pc \in {"zipOpen", "zip", "remove"}
           /\ RemovesFolder(ct[t].cur))
          => (ct[t].stream = "closed" /\ ct[t].todo = {})
     /\ (up' # up /\ up.pc # "idle" /\ RemovesFolder(up.baseName))
          => (up.stream = "closed" /\ up.todo = {})]_vars

\* a compaction and an upload have both archived a folder and removed it
C4_Witness ==
  /\ \E t \in Tasks : \E k \in 1..Len(ct[t].results) : ct[t].results[k].kind = "compacted"
  /\ up.status = 200 /\ up.pc = "idle"
  /\ ~isDirectory(dirs, folderPath(D))
  /\ zipPath(D) \in DOMAIN files /\ files[zipPath(D)].closed

\* a finished archive of folder n's present contents exists
CompleteArchive(d, f, n) ==
  /\ zipPath(n) \in DOMAIN f
  /\ f[zipPath(n)] = Zip(contents(f, folderPath(n)), TRUE)

\* C8: with compactions running concurrently (and no I/O failure injected),
\* a compaction removes folder F only when a complete archive of F's
\* contents exists.
C8_ConcurrentCompactionSafe ==
  [][\A t \in Tasks :
       (ct'[t] # ct[t] /\ RemovesFolder(ct[t].cur) /\ faults' = MaxFaults)
       => CompleteArchive(dirs, files, ct[t].cur)]_vars

\* task t is inside a direct call of compactDirectory whose previous call, on
\* the same name, returned compacted
SecondCall(t) ==
  /\ ct[t].mode = "one" /\ ct[t].pc \notin {"idle", "done"}
  /\ ct[t].results = <<Compacted(ct[t].cur)>>

\* C9 as claimed: of two successive calls of compactDirectory on one name,
\* the first returning compacted, the second returns removed.
C9_CompactedThenRemoved ==
  \A t \in Tasks :
    (/\ ct[t].mode = "one" /\ ct[t].pc = "done" /\ Len(ct[t].results) = 2
     /\ ct[t].results[1] = Compacted(ct[t].cur))
    => ct[t].results[2].kind = "removed"

\* C9 as amended: the second call returns skipped (not-directory), and no
\* step of it changes any file or directory.
C9_CompactedThenSkipped ==
  [][\A t \in Tasks :
       (SecondCall(t) /\ ct'[t] # ct[t]) =>
         /\ dirs' = dirs /\ files' = files
         /\ ct'[t].pc = "done" => ct'[t].results = <<Compacted(ct[t].cur), Skipped(ct[t].cur)>>]_vars

\* two successive calls have returned compacted, then skipped, and the one
\* archive is there
C9_Witness ==
  \E t \in Tasks :
    /\ ct[t].mode = "one" /\ ct[t].pc = "done"
    /\ ct[t].results = <<Compacted(ct[t].cur), Skipped(ct[t].cur)>>
    /\ zipPath(ct[t].cur) \in DOMAIN files /\ files[zipPath(ct[t].cur)].closed

\* task t leaves the archive step of compactDirectory without the stream
\* having closed
ArchiveFails(t) ==
  /\ ct[t].pc \in {"zipOpen", "zip"}
  /\ ct'[t] # ct[t]
  /\ ct'[t].pc \notin {"zip", "remove"}

outcomeNames(c) == {c.results[k].name : k \in 1..Len(c.results)}

WriteFails == up.pc = "write" /\ Responds /\ up'.cause = "io"

\* C12: when the write of entry i of a folder batch fails, no file or
\* directory changes (what was written stays, nothing later is done), and
\* the response tells the number of writes that succeeded.
C12_PartialWriteSurfaced ==
  [][WriteFails =>
       /\ dirs' = dirs /\ files' = files
       /\ up.wrote \subseteq DOMAIN files
       /\ up'.status = 500
       /\ up'.reported = {up.i - 1}]_vars

\* a delete-folder or delete-all request takes a step
DeleteStep == req.op \in {"folder", "all"} /\ req' # req

\* C13: no step of deleteFolder or deleteAll removes a folder F, or its lock
\* marker, while F.uploading exists.
C13_LockedFolderNotDeleted ==
  [][\A n \in rootDirNames(dirs) :
       (DeleteStep /\ pathExists(dirs, files, lockPath(n))) =>
         /\ isDirectory(dirs', folderPath(n))
         /\ pathExists(dirs', files', lockPath(n))]_vars

\* String.prototype.endsWith
endsWith(s, suffix) ==
  Len(suffix) <= Len(s) /\ SubSeq(s, Len(s) - Len(suffix) + 1, Len(s)) = suffix

\* the files at the uploads root that are named like an archive, F.zip
archivesAtRoot(f) ==
  {p \in DOMAIN f : Ancestors(p) = {} /\ Under(p, UPLOADS_DIR) /\ endsWith(p, ZipExt)}

\* C14: every file F.zip at the uploads root was written by an archive step
\* (of compactDirectory or of a folder upload): no flat upload created it.
C14_ArchiveOnlyByArchiver ==
  \A p \in archivesAtRoot(files) : files[p].kind = "zip"

\* the flat branch of the upload handler takes a step, on entry up.i
FlatStep == up.pc = "flatWrite" /\ up' # up

\* what a flat write of entry f does: nothing but the file at the root named
\* by f's basename changes, it gets f's bytes, and no directory is made
FlatWriteEffect(f) ==
  LET dest == join(UPLOADS_DIR, basename(f.originalname))
  IN  /\ dirs' = dirs
      /\ \A p \in (DOMAIN files \cup DOMAIN files') \ {dest} :
           p \in DOMAIN files /\ p \in DOMAIN files' /\ files'[p] = files[p]
      /\ files' # files => (dest \in DOMAIN files' /\ files'[dest] = f.buffer)

\* C18: a flat ingest writes each entry at the uploads root under its
\* basename, a later write of a name replacing the earlier one; it creates
\* no folder, no archive F.zip and no lock marker F.uploading; and a
\* download of a name returns the bytes last written under it.
C18_FlatIngest ==
  [][/\ FlatStep =>
          /\ FlatWriteEffect(up.batch.files[up.i])
          /\ archivesAtRoot(files') = archivesAtRoot(files)
          /\ \A n \in rootDirNames(dirs) :
               pathExists(dirs', files', lockPath(n)) = pathExists(dirs, files, lockPath(n))
     /\ (req' # req /\ req'.op = "fetch" /\ folderPath(req'.name) \in DOMAIN files) =>
          (req'.status = 200 /\ req'.body = {files[folderPath(req'.name)]})]_vars

\* the outcome compactDirectory has just returned to task t
lastOutcome(c) == c.results[Len(c.results)]

\* C15: compactDirectory on an existing folder F whose F.zip exists takes
\* the branch of line 29; there (unless fs.remove fails) it removes folder
\* F, creates and rewrites no file, F.zip included, and returns removed.
C15_RedundantFolderRemoved ==
  [][\A t \in Tasks :
       /\ (/\ ct[t].pc = "exists" /\ ct'[t] # ct[t]
           /\ pathExists(dirs, files, zipPath(ct[t].cur)))
          => (ct'[t].pc = "removeRedundant" /\ dirs' = dirs /\ files' = files)
       /\ (ct[t].pc = "removeRedundant" /\ ct'[t] # ct[t] /\ faults' = faults)
          => /\ ~isDirectory(dirs', folderPath(ct[t].cur))
             /\ contents(files', folderPath(ct[t].cur)) = {}
             /\ DOMAIN files' \subseteq DOMAIN files
             /\ \A p \in DOMAIN files' : files'[p] = files[p]
             /\ zipView(dirs', files', ct[t].cur) = zipView(dirs, files, ct[t].cur)
             /\ lastOutcome(ct'[t]) = Removed(ct[t].cur)]_vars

\* a folder that lay beside its finished archive was removed, the archive
\* is as it was, and removed was returned
C15_Witness ==
  \E t \in Tasks : \E k \in 1..Len(ct[t].results) :
    /\ ct[t].results[k] = Removed(D)
    /\ ~isDirectory(dirs, folderPath(D))
    /\ zipPath(D) \in DOMAIN files
    /\ files[zipPath(D)] = Zip(contents(LeftFiles, dirD), TRUE)

\* 1 GiB
GiB == 2^30

\* the cumulative size of the files of the tree measured
treeTotal == sumSizes(files, listing(files, dirD))

\* a round of computeFolderSize's loop, and one after which it returns
SizeStep    == req.op = "size" /\ req.pc = "loop" /\ req' # req
SizeReturns == SizeStep /\ req'.pc = "idle"

\* C16 as claimed: on a tree whose cumulative size exceeds 1 GiB,
\* computeFolderSize returns at least 1 GiB, and it stops as soon as its
\* running total exceeds 1 GiB.
C16_StopsAtGiB ==
  [][/\ (SizeReturns /\ treeTotal > GiB) => \A v \in req'.body : v >= GiB
     /\ (SizeStep /\ req'.pc = "loop") => req'.total <= GiB]_vars

\* C16 as amended: computeFolderSize terminates; on a tree whose cumulative
\* size exceeds 1e9 bytes it returns more than 1e9; and it reads a further
\* directory only while the total, taken after a directory's entries have
\* all been added, does not exceed 1e9.
C16_StopsAtLimit ==
  /\ [][/\ SizeReturns =>
             /\ req'.body # {}
             /\ \A v \in req'.body : v <= treeTotal /\ (treeTotal > SizeLimit => v > SizeLimit)
        /\ (SizeStep /\ req'.pc = "loop") => req'.total <= SizeLimit]_vars
  /\ (req.pc = "loop") ~> (req.op = "size" /\ req.pc = "idle")

\* computeFolderSize has returned more than the ceiling and has left a
\* directory unread
C16_Witness ==
  /\ req.op = "size" /\ req.pc = "idle"
  /\ \E v \in req.body : v > SizeLimit
  /\ req.stack # <<>>

\* C17: when a compactAll sweep is over, its results hold a skipped outcome
\* for every folder whose lock marker existed throughout the sweep.
C17_LockedFolderReportedSkipped ==
  \A t \in Tasks :
    (ct[t].mode = "all" /\ ct[t].pc = "done") =>
      \A n \in hist.held[t] :
        \E k \in 1..Len(ct[t].results) :
          ct[t].results[k].kind = "skipped" /\ ct[t].results[k].name = n

\* what can be seen of the top-level entry named m: a folder with its
\* contents, or a file with its content
topView(d, f, m) ==
  [tree |-> folderView(d, f, m),
   file |-> {f[p] : p \in {folderPath(m)} \cap DOMAIN f}]

\* C19: a deleteFolder(name) request changes no top-level entry other than
\* name and name.zip, and when it has answered 200 neither of the two
\* exists.
C19_DeleteFolderFrame ==
  [][(req'.op = "folder" /\ req' # req) =>
       /\ \A m \in rootNames(dirs, files) \ {req'.name, req'.name \o ZipExt} :
            topView(dirs', files', m) = topView(dirs, files, m)
       /\ (req'.pc = "idle" /\ req'.status = 200) =>
            /\ ~pathExists(dirs', files', folderPath(req'.name))
            /\ ~pathExists(dirs', files', zipPath(req'.name))]_vars

\* C20: a call of compactDirectory on a name that is no directory (absent,
\* or a regular file) changes no file and no directory, whether or not
\* name.zip exists, and returns skipped with reason not-directory.
C20_NotDirectorySkipped ==
  [][\A t \in Tasks :
       /\ (ct[t].pc \in {"idle", "done"} /\ ct'[t].pc = "stat")
          => (dirs' = dirs /\ files' = files)
       /\ (/\ ct[t].pc = "stat" /\ ct'[t] # ct[t]
           /\ ~isDirectory(dirs, folderPath(ct[t].cur)))
          => /\ dirs' = dirs /\ files' = files
             /\ ct'[t].pc \notin {"exists", "removeRedundant", "zipOpen", "zip", "remove"}
             /\ Len(ct'[t].results) = Len(ct[t].results) + 1
             /\ lastOutcome(ct'[t]) = Skipped(ct[t].cur)]_vars

\* two calls have returned skipped: one on the regular file d.zip, one on
\* the absent name d while d.zip exists
C20_Witness ==
  \E t \in Tasks :
    /\ ct[t].mode = "one" /\ ct[t].pc = "done"
    /\ ct[t].results = <<Skipped(D \o ZipExt), Skipped(D)>>
    /\ zipPath(D) \in DOMAIN files
    /\ ~pathExists(dirs, files, folderPath(D))

====
